---- MODULE Spec2Model ----
(***************************************************************************)
(* Model of the earthquake pipeline of bagcivan/deprem-verileri:           *)
(*   kandilli.py / afad.py   per-source normalizers                        *)
(*   utils.py                deduplicate_earthquakes                       *)
(*   data_handler.py         fetch_earthquake_data, filter_data            *)
(*   streamlit_app.py        main                                          *)
(*                                                                         *)
(* Units.  Python floats are modelled by exact scaled integers:            *)
(*   timestamp   milliseconds, counted from a reference instant            *)
(*   latitude, longitude   hundredths of a degree                          *)
(*   magnitude, min_magnitude   tenths                                     *)
(* so  time_diff < 60  is  |dt| < 60000,  distance < 0.1  is               *)
(* dlat^2 + dlon^2 < 10^2  and  mag_diff < 0.5  is  |dm| < 5.              *)
(* Sequences are 1-based: position k here is pandas index k-1.             *)
(***************************************************************************)
EXTENDS Integers, Sequences, FiniteSets, TLC

VARIABLES
  pc,                  \* position of the running function
  \* ---- utils.deduplicate_earthquakes
  earthquakes,         \* the argument (df = pd.DataFrame(earthquakes))
  unique_earthquakes,  \* list built by the loop, the return value
  used_indices,        \* set of consumed positions
  i,                   \* position of the outer loop
  kept,                \* history: positions appended to unique_earthquakes
  absorbed_by,         \* history: j |-> the i whose scan added j (0: none)
  \* ---- kandilli.parse_kandilli_data / afad.standardize_afad_data
  norm_source,         \* which normalizer runs: "Kandilli" or "AFAD"
  html_content,        \* argument of parse_kandilli_data
  afad_data,           \* argument of standardize_afad_data
  norm_pos,            \* position of the loop over the raw records
  norm_out,            \* earthquakes / standardized: the list being built
  emitted,             \* history: raw positions that produced an event
  \* ---- data_handler.filter_data and streamlit_app.main
  df,                  \* the frame fetch_earthquake_data returned
  min_magnitude,       \* sidebar slider, tenths
  region,              \* sidebar selectbox
  filtered_df,         \* the frame filter_data builds and returns
  \* ---- data_handler.fetch_earthquake_data
  sources,             \* the list of selected sources
  kandilli_net,        \* what the Kandilli site answers during this run
  afad_net,            \* what the AFAD service answers during this run
  combined_data,       \* the merged list
  signals,             \* the st.error / st.warning / st.success ... calls made
  \* ---- streamlit_app.main: st.cache_data(ttl=3600) around the fetch
  afad_hours,          \* sidebar slider, hours
  cache,               \* the entries the cache holds: [key, stored_at, value]
  clock,               \* seconds since the first run of the script
  run,                 \* number of the running script run, from 1
  computed_in,         \* history: the run that computed the frame in df
  log,                 \* history: per run, its key, time and returned frame
  \* ---- the host, and one record of each source through its normalizer
  host_tz,             \* UTC offset of the host's local timezone, ms
  raw_line,            \* argument of _parse_kandilli_line
  raw_quake,           \* argument of _standardize_afad_quake
  normalized,          \* the two return values
  renormalized,        \* the return values of a second call on the same records
  pair_unique          \* deduplicate_earthquakes of the two events

dedupVars == <<earthquakes, unique_earthquakes, used_indices, i, kept, absorbed_by>>
normVars == <<norm_source, html_content, afad_data, norm_pos, norm_out, emitted>>
filterVars == <<df, min_magnitude, region, filtered_df>>
cacheVars == <<afad_hours, cache, clock, run, computed_in, log>>
fetchVars == <<sources, kandilli_net, afad_net, combined_data, signals, cacheVars>>
recordVars == <<host_tz, raw_line, raw_quake, normalized, renormalized, pair_unique>>
vars == <<pc, dedupVars, normVars, filterVars, fetchVars, recordVars>>

\* ------------------------------------------------------------------ bounds
MaxLen == 4          \* longest sequence handed to deduplicate_earthquakes
MaxBatch == 3        \* most raw records in one batch handed to a normalizer
MaxRows == 3         \* most rows of a frame handed to filter_data
MaxFeed == 2         \* most raw records one source answers in a pipeline run
MaxRuns == 3         \* most successive runs of the script

\* --------------------------------------------------------------- helpers
SeqUpTo(S, n) == UNION {[1..k -> S] : k \in 0..n}

Abs(x) == IF x < 0 THEN -x ELSE x

\* float('nan') / None in a magnitude column
NaN == -999

\* float('inf'), the mag_diff of a pair with a missing magnitude
Inf == 1000000

isna(x) == x = NaN

\* ------------------------------------------------- utils.py, lines 36-49
\* abs((row['timestamp'] - other_row['timestamp']) / 1000), kept in ms
time_diff(row, other_row) == Abs(row.timestamp - other_row.timestamp)

\* distance ** 2, in hundredths of a degree squared
distance_sq(row, other_row) ==
  (row.latitude - other_row.latitude) * (row.latitude - other_row.latitude)
  + (row.longitude - other_row.longitude) * (row.longitude - other_row.longitude)

\* mag_diff without abs
mag_diff_signed(row, other_row) ==
  IF ~(row.magnitude = NaN) /\ ~(other_row.magnitude = NaN)
  THEN row.magnitude - other_row.magnitude
  ELSE Inf

\* mag_diff with a missing magnitude counted as no difference
mag_diff_missing_is_zero(row, other_row) ==
  IF ~(row.magnitude = NaN) /\ ~(other_row.magnitude = NaN)
  THEN Abs(row.magnitude - other_row.magnitude)
  ELSE 0

mag_diff(row, other_row) ==
  IF ~isna(row.magnitude) /\ ~isna(other_row.magnitude)
  THEN Abs(row.magnitude - other_row.magnitude)
  ELSE Inf

\* a test of time and place alone
IsDuplicate_time_and_place(row, other_row) ==
  /\ time_diff(row, other_row) < 60 * 1000
  /\ distance_sq(row, other_row) < 10 * 10

\* the three comparisons made inclusive
IsDuplicate_inclusive(row, other_row) ==
  /\ time_diff(row, other_row) <= 60 * 1000
  /\ distance_sq(row, other_row) <= 10 * 10
  /\ mag_diff(row, other_row) <= 5

IsDuplicate(row, other_row) ==
  /\ time_diff(row, other_row) < 60 * 1000
  /\ distance_sq(row, other_row) < 10 * 10
  /\ mag_diff(row, other_row) < 5

\* an inner loop that also consumes what matches an already consumed row
RECURSIVE ScanDuplicates_transitive(_, _, _, _)
ScanDuplicates_transitive(rows, ii, j, used) ==
  IF j > Len(rows) THEN used
  ELSE IF ii = j \/ j \in used THEN ScanDuplicates_transitive(rows, ii, j + 1, used)
  ELSE IF \E k \in used \cup {ii} :
            /\ Abs(rows[k].timestamp - rows[j].timestamp) < 60000
            /\ distance_sq(rows[k], rows[j]) < 100
            /\ mag_diff(rows[k], rows[j]) < 5
       THEN ScanDuplicates_transitive(rows, ii, j + 1, used \cup {j})
       ELSE ScanDuplicates_transitive(rows, ii, j + 1, used)

\* an inner loop without the i == j test
RECURSIVE ScanDuplicates_no_self_skip(_, _, _, _)
ScanDuplicates_no_self_skip(rows, ii, j, used) ==
  IF j > Len(rows) THEN used
  ELSE IF j \in used THEN ScanDuplicates_no_self_skip(rows, ii, j + 1, used)
  ELSE IF /\ Abs(rows[ii].timestamp - rows[j].timestamp) < 60000
          /\ distance_sq(rows[ii], rows[j]) < 100
          /\ mag_diff(rows[ii], rows[j]) < 5
       THEN ScanDuplicates_no_self_skip(rows, ii, j + 1, used \cup {j})
       ELSE ScanDuplicates_no_self_skip(rows, ii, j + 1, used)

\* an inner loop that looks at the row after i only
ScanDuplicates_adjacent(rows, ii, j, used) ==
  IF /\ ii + 1 <= Len(rows) /\ ii + 1 \notin used
     /\ Abs(rows[ii].timestamp - rows[ii + 1].timestamp) < 60000
     /\ distance_sq(rows[ii], rows[ii + 1]) < 100
     /\ mag_diff(rows[ii], rows[ii + 1]) < 5
  THEN used \cup {ii + 1}
  ELSE used

\* an inner loop that stops at the first duplicate it finds
RECURSIVE ScanDuplicates_first_only(_, _, _, _)
ScanDuplicates_first_only(rows, ii, j, used) ==
  IF j > Len(rows) THEN used
  ELSE IF ii = j \/ j \in used THEN ScanDuplicates_first_only(rows, ii, j + 1, used)
  ELSE IF /\ Abs(rows[ii].timestamp - rows[j].timestamp) < 60000
          /\ distance_sq(rows[ii], rows[j]) < 100
          /\ mag_diff(rows[ii], rows[j]) < 5
       THEN used \cup {j}
       ELSE ScanDuplicates_first_only(rows, ii, j + 1, used)

\* The inner loop of iteration i: every position j of the frame, in order.
RECURSIVE ScanDuplicates(_, _, _, _)
ScanDuplicates(rows, ii, j, used) ==
  IF j > Len(rows) THEN used
  ELSE IF ii = j \/ j \in used THEN ScanDuplicates(rows, ii, j + 1, used)
  ELSE IF IsDuplicate(rows[ii], rows[j])
       THEN ScanDuplicates(rows, ii, j + 1, used \cup {j})
       ELSE ScanDuplicates(rows, ii, j + 1, used)

\* The outer loop from position ii on.
RECURSIVE DedupLoop(_, _, _, _)
DedupLoop(rows, ii, used, unique) ==
  IF ii > Len(rows) THEN unique
  ELSE IF ii \in used THEN DedupLoop(rows, ii + 1, used, unique)
  ELSE DedupLoop(rows, ii + 1, ScanDuplicates(rows, ii, 1, used), Append(unique, rows[ii]))

\* The function as a whole, as its callers use it.
deduplicate_earthquakes(eqs) ==
  IF eqs = <<>> THEN <<>> ELSE DedupLoop(eqs, 1, {}, <<>>)

\* ======================================================================
\* Record normalizers: kandilli.py and afad.py
\* ======================================================================
\* A raw field is [k, v]: k = "ok" (present and parseable, value v),
\* "absent" (AFAD: the key is missing), "null" (AFAD: JSON null), "bad" (not
\* parseable), "dash" (Kandilli: the magnitude placeholder -.-).
Ok(n) == [k |-> "ok", v |-> n]
Absent == [k |-> "absent", v |-> 0]
Null == [k |-> "null", v |-> 0]
Bad == [k |-> "bad", v |-> 0]
Dash == [k |-> "dash", v |-> 0]

\* the value a normalizer returns for a record it drops (Python None)
NoEvent == [none |-> TRUE]

\* The quality strings, spelled in ASCII: afad.py line 105 writes I-with-dot
\* (U+0130) in both words; kandilli.py line 110 writes the two characters
\* A-umlaut, degree sign in its place.
ILKSEL_dotted == "<U+0130>LKSEL"
REVIZE_dotted == "REV<U+0130>ZE"
ILKSEL_mojibake == "<U+00C4><U+00B0>LKSEL"

\* timedelta(hours=3), in ms
Hours3 == 3 * 3600 * 1000

\* The eventID values.  afad.py, line 91: the record's own value as it came,
\* None when the record has none; kandilli.py, line 117: the text
\* kandilli_<date>_<time>, here the prefix and the second of the local time.
NativeId(n) == [qualifier |-> "", key |-> n]
NoneId == [qualifier |-> "", key |-> NaN]
KandilliId(secs) == [qualifier |-> "kandilli", key |-> secs]

\* datetime.timestamp() of a naive datetime reads it in the host's local
\* timezone: the wall-clock value less the host's UTC offset.
NaiveTimestamp(wall_ms) == wall_ms - host_tz

\* afad.py, line 81: float(quake.get("magnitude", 0)); Bad when it raises
afad_magnitude(quake) ==
  CASE quake.magnitude.k = "ok"     -> quake.magnitude
    [] quake.magnitude.k = "absent" -> Ok(0)
    [] OTHER                        -> Bad

\* afad.py, lines 66-110
standardize_afad_quake(quake) ==
  IF \/ quake.date.k # "ok"                \* line 68: None.replace / fromisoformat raise
     \/ afad_magnitude(quake).k # "ok"     \* line 81: float(None), float("x") raise
     \/ quake.latitude.k # "ok"            \* line 93
     \/ quake.longitude.k # "ok"           \* line 94
     \/ quake.depth.k # "ok"               \* line 95
  THEN NoEvent
  ELSE LET mag_type == IF quake.type = "absent" THEN "ML" ELSE quake.type
           mag_value == afad_magnitude(quake).v
           local_ms == quake.date.v + Hours3
       IN [eventID |-> IF quake.eventID.k = "ok" THEN NativeId(quake.eventID.v) ELSE NoneId,
           date |-> local_ms \div 1000,
           latitude |-> quake.latitude.v,
           longitude |-> quake.longitude.v,
           depth |-> quake.depth.v,
           magnitude |-> mag_value,
           magnitude_details |->
             [md |-> IF mag_type = "MD" THEN mag_value ELSE NaN,
              ml |-> IF mag_type = "ML" THEN mag_value ELSE NaN,
              mw |-> IF mag_type = "MW" THEN mag_value ELSE NaN],
           type |-> mag_type,
           location |-> quake.location,
           \* line 77: a date with a Z suffix is aware (UTC), one without is naive
           timestamp |-> IF quake.zone = "Z" THEN local_ms ELSE NaiveTimestamp(local_ms),
           quality |-> IF quake.isEventUpdate = "true" THEN REVIZE_dotted ELSE ILKSEL_dotted,
           source |-> "AFAD"]

\* kandilli.py, lines 92-94: float(s) if s != '-.-' else None
kandilli_float(f) == IF f.k = "dash" THEN NaN ELSE f.v

\* the selection with MW preferred to ML
kandilli_magnitude_mw_first(md, ml, mw) ==
  IF ~(mw = NaN) THEN mw
  ELSE IF ~(ml = NaN) THEN ml
  ELSE IF ~(md = NaN) THEN md
  ELSE 0

\* kandilli.py, lines 96-105: ML preferred, then MW, then MD, else 0
kandilli_magnitude(md, ml, mw) ==
  IF ~isna(ml) THEN ml
  ELSE IF ~isna(mw) THEN mw
  ELSE IF ~isna(md) THEN md
  ELSE 0

\* kandilli.py, line 110: str.replace on the last token
kandilli_quality(last) == IF last = "ILKSEL" THEN ILKSEL_mojibake ELSE last

\* kandilli.py, lines 73-140
parse_kandilli_line(line) ==
  IF \/ line.shape = "short"                          \* line 77: fewer than 9 parts
     \/ line.lat.k # "ok" \/ line.lon.k # "ok" \/ line.depth.k # "ok"   \* lines 83-85
     \/ line.md.k = "bad" \/ line.ml.k = "bad" \/ line.mw.k = "bad"     \* lines 92-94
     \/ line.when.k # "ok"                            \* line 113: strptime raises
  THEN NoEvent
  ELSE LET md == kandilli_float(line.md)
           ml == kandilli_float(line.ml)
           mw == kandilli_float(line.mw)
           magnitude_value == kandilli_magnitude(md, ml, mw)
           location_end_index == Len(line.tail)
       IN [eventID |-> KandilliId(line.when.v \div 1000),
           date |-> line.when.v \div 1000,
           latitude |-> line.lat.v,
           longitude |-> line.lon.v,
           depth |-> line.depth.v,
           magnitude |-> magnitude_value,
           magnitude_details |-> [md |-> md, ml |-> ml, mw |-> mw],
           type |-> IF ~isna(ml) THEN "ML" ELSE IF ~isna(mw) THEN "MW" ELSE "MD",
           location |-> line.location \o SubSeq(line.tail, 1, location_end_index - 1),
           timestamp |-> NaiveTimestamp(line.when.v),
           quality |-> kandilli_quality(line.tail[location_end_index]),
           source |-> "Kandilli"]

\* list.sort(key=timestamp, reverse=True): stable, newest first
RECURSIVE InsertNewestFirst(_, _)
InsertNewestFirst(sorted, e) ==
  IF sorted = <<>> THEN <<e>>
  ELSE IF Head(sorted).timestamp >= e.timestamp
       THEN <<Head(sorted)>> \o InsertNewestFirst(Tail(sorted), e)
       ELSE <<e>> \o sorted

RECURSIVE SortNewestFirst(_)
SortNewestFirst(s) ==
  IF s = <<>> THEN <<>>
  ELSE InsertNewestFirst(SortNewestFirst(SubSeq(s, 1, Len(s) - 1)), s[Len(s)])

\* kandilli.py, line 51: blank lines, rules and the footer are passed over
SkippedLine(line) == line.shape = "blank"

\* kandilli.py, lines 27-45: no text, no <pre>, or no header separator
NoKandilliTable(html) == html.empty \/ ~html.pre \/ ~html.header

\* kandilli.py, lines 47-56: the loop over the lines, before the sort
RECURSIVE ParseKandilliLines(_)
ParseKandilliLines(lines) ==
  IF lines = <<>> THEN <<>>
  ELSE LET rest == ParseKandilliLines(Tail(lines))
           earthquake == parse_kandilli_line(Head(lines))
       IN IF SkippedLine(Head(lines)) \/ earthquake = NoEvent
          THEN rest ELSE <<earthquake>> \o rest

\* kandilli.py, lines 22-61
parse_kandilli_data(html) ==
  IF NoKandilliTable(html) THEN <<>>
  ELSE SortNewestFirst(ParseKandilliLines(html.lines))

\* afad.py, lines 44-49: the loop over the records, before the sort
RECURSIVE StandardizeAfadQuakes(_)
StandardizeAfadQuakes(data) ==
  IF data = <<>> THEN <<>>
  ELSE LET rest == StandardizeAfadQuakes(Tail(data))
           standardized_quake == standardize_afad_quake(Head(data))
       IN IF standardized_quake = NoEvent THEN rest ELSE <<standardized_quake>> \o rest

\* afad.py, lines 40-54
standardize_afad_data(data) == SortNewestFirst(StandardizeAfadQuakes(data))

\* ------------------------------------------- raw records of the runs
\* A well-formed AFAD record and a well-formed Kandilli line.  Text is a
\* sequence of words.  zone: the date is written without offset ("naive") or
\* with the suffix Z.  tail: the words of a line after the place name, either
\* the status word alone or  REVIZE01 (date time)  of a revised solution.
AfadQuake(id, utc_ms, lat, lon, mag, typ) ==
  [eventID |-> Ok(id), date |-> Ok(utc_ms), zone |-> "naive", latitude |-> Ok(lat),
   longitude |-> Ok(lon), depth |-> Ok(70), magnitude |-> Ok(mag), type |-> typ,
   location |-> <<"loc">>, isEventUpdate |-> "absent"]

KandilliLine(local_ms, lat, lon, md, ml, mw) ==
  [shape |-> "data", when |-> Ok(local_ms), lat |-> Ok(lat), lon |-> Ok(lon),
   depth |-> Ok(50), md |-> md, ml |-> ml, mw |-> mw, location |-> <<"loc">>,
   tail |-> <<"ILKSEL">>]

BaseQuake == AfadQuake(1, 20000 - Hours3, 4072, 2903, 40, "MW")
BaseLine == KandilliLine(0, 4070, 2900, Dash, Ok(41), Dash)

\* Well-formed records, and the base record with one required field absent,
\* null or unparseable.
AfadRaw ==
  {BaseQuake, AfadQuake(2, 7200000 - Hours3, 3800, 3500, 15, "absent")}
  \cup {[BaseQuake EXCEPT !.date = f] : f \in {Absent, Null, Bad}}
  \cup {[BaseQuake EXCEPT !.latitude = f] : f \in {Absent, Null, Bad}}
  \cup {[BaseQuake EXCEPT !.longitude = f] : f \in {Absent, Bad}}
  \cup {[BaseQuake EXCEPT !.depth = f] : f \in {Absent, Bad}}
  \cup {[BaseQuake EXCEPT !.magnitude = f] : f \in {Absent, Null, Bad}}

KandilliRaw ==
  {BaseLine, KandilliLine(7200000, 3800, 3500, Ok(15), Dash, Ok(17)),
   KandilliLine(3600000, 4070, 2900, Dash, Dash, Dash),
   [BaseLine EXCEPT !.shape = "short"], [BaseLine EXCEPT !.shape = "blank"],
   [BaseLine EXCEPT !.when = Bad], [BaseLine EXCEPT !.lat = Bad],
   [BaseLine EXCEPT !.lon = Bad], [BaseLine EXCEPT !.depth = Bad],
   [BaseLine EXCEPT !.ml = Bad], [BaseLine EXCEPT !.md = Bad],
   [BaseLine EXCEPT !.mw = Bad]}

Html(lines) == [empty |-> FALSE, pre |-> TRUE, header |-> TRUE, lines |-> lines]
EmptyHtml == [empty |-> TRUE, pre |-> FALSE, header |-> FALSE, lines |-> <<>>]

\* The variables of the functions a run does not execute stay at these values.
IdleDedup ==
  /\ earthquakes = <<>> /\ unique_earthquakes = <<>> /\ used_indices = {}
  /\ i = 1 /\ kept = <<>> /\ absorbed_by = <<>>

IdleNorm ==
  /\ norm_source = "none" /\ html_content = EmptyHtml /\ afad_data = <<>>
  /\ norm_pos = 1 /\ norm_out = <<>> /\ emitted = {}

\* the host runs on UTC, or on the local time of Turkey
HostZones == {0, Hours3}

IdleRecord ==
  /\ raw_line = NoEvent /\ raw_quake = NoEvent /\ normalized = <<>>
  /\ renormalized = <<>> /\ pair_unique = <<>>

IdleFilter == df = <<>> /\ min_magnitude = 0 /\ region = "Tum Turkiye" /\ filtered_df = <<>>

IdleFetch ==
  /\ sources = <<>> /\ kandilli_net = [status |-> "exception", payload |-> EmptyHtml]
  /\ afad_net = [status |-> "exception", payload |-> <<>>]
  /\ combined_data = <<>> /\ signals = {}
  /\ afad_hours = 48 /\ cache = {} /\ clock = 0 /\ run = 1
  /\ computed_in = 0 /\ log = <<>>

\* the records the running normalizer loops over
RawRecords == IF norm_source = "Kandilli" THEN html_content.lines ELSE afad_data

\* ------------------------------------------------ normalizers, stepwise
NormInit ==
  /\ pc = "norm_start"
  /\ norm_source \in {"Kandilli", "AFAD"}
  /\ IF norm_source = "Kandilli"
     THEN /\ html_content \in
                {Html(l) : l \in SeqUpTo(KandilliRaw, MaxBatch)}
                \cup {EmptyHtml, [Html(<<BaseLine>>) EXCEPT !.pre = FALSE],
                      [Html(<<BaseLine>>) EXCEPT !.header = FALSE]}
          /\ afad_data = <<>>
     ELSE /\ afad_data \in SeqUpTo(AfadRaw, MaxBatch)
          /\ html_content = EmptyHtml
  /\ norm_pos = 1
  /\ norm_out = <<>>
  /\ emitted = {}
  /\ IdleDedup /\ IdleFilter /\ IdleFetch
  /\ host_tz = 0 /\ IdleRecord

\* kandilli.py, lines 27-47 / afad.py, line 44
NormStart ==
  /\ pc = "norm_start"
  /\ pc' = IF norm_source = "Kandilli" /\ NoKandilliTable(html_content)
           THEN "norm_done" ELSE "norm_loop"
  /\ norm_out' = <<>>
  /\ norm_pos' = 1
  /\ UNCHANGED <<norm_source, html_content, afad_data, emitted>>
  /\ UNCHANGED <<dedupVars, filterVars, fetchVars, recordVars>>

\* kandilli.py, lines 49-56 / afad.py, lines 46-49: one raw record
NormRecord ==
  /\ pc = "norm_loop"
  /\ norm_pos <= Len(RawRecords)
  /\ LET raw == RawRecords[norm_pos]
         event == IF norm_source = "Kandilli"
                  THEN (IF SkippedLine(raw) THEN NoEvent ELSE parse_kandilli_line(raw))
                  ELSE standardize_afad_quake(raw)
     IN /\ norm_out' = IF event = NoEvent THEN norm_out ELSE Append(norm_out, event)
        /\ emitted' = IF event = NoEvent THEN emitted ELSE emitted \cup {norm_pos}
  /\ norm_pos' = norm_pos + 1
  /\ UNCHANGED <<pc, norm_source, html_content, afad_data>>
  /\ UNCHANGED <<dedupVars, filterVars, fetchVars, recordVars>>

\* kandilli.py, lines 58-61 / afad.py, lines 51-54: sort and return
NormSort ==
  /\ pc = "norm_loop"
  /\ norm_pos > Len(RawRecords)
  /\ norm_out' = SortNewestFirst(norm_out)
  /\ pc' = "norm_done"
  /\ UNCHANGED <<norm_source, html_content, afad_data, norm_pos, emitted>>
  /\ UNCHANGED <<dedupVars, filterVars, fetchVars, recordVars>>

\* ======================================================================
\* Query/filter layer: data_handler.filter_data, visualization.py
\* ======================================================================
\* the selectbox options "Tum Turkiye" and "Marmara Bolgesi", in ASCII
Regions == {"Tum Turkiye", "Marmara Bolgesi"}

\* constants.py, lines 4-9, in hundredths of a degree
MARMARA_BOUNDS == [min_lat |-> 3950, max_lat |-> 4150, min_lon |-> 2600, max_lon |-> 3100]

\* a box test with the edges left out
is_in_marmara_region_open(lat, lon) ==
  /\ MARMARA_BOUNDS.min_lat < lat /\ lat < MARMARA_BOUNDS.max_lat
  /\ MARMARA_BOUNDS.min_lon < lon /\ lon < MARMARA_BOUNDS.max_lon

\* visualization.py, lines 11-16
is_in_marmara_region(lat, lon) ==
  /\ MARMARA_BOUNDS.min_lat <= lat /\ lat <= MARMARA_BOUNDS.max_lat
  /\ MARMARA_BOUNDS.min_lon <= lon /\ lon <= MARMARA_BOUNDS.max_lon

\* data_handler.py, line 82: the mask magnitude >= min_magnitude (False on NaN)
MagnitudeMask(frame, min_mag) ==
  SelectSeq(frame, LAMBDA row : ~isna(row.magnitude) /\ row.magnitude >= min_mag)

\* data_handler.py, lines 85-91
MarmaraMask(frame, reg) ==
  IF reg = "Marmara Bolgesi"
  THEN SelectSeq(frame, LAMBDA row : is_in_marmara_region(row.latitude, row.longitude))
  ELSE frame

\* data_handler.py, lines 66-93
filter_data(frame, min_mag, reg) == MarmaraMask(MagnitudeMask(frame, min_mag), reg)

\* Rows on, inside and just outside the box, with magnitude 2.0; and rows
\* inside the box with magnitude 1.9 and without magnitude.
FilterEvents ==
  {[latitude |-> p[1], longitude |-> p[2], magnitude |-> 20] :
     p \in {<<4070, 2900>>, <<3950, 2900>>, <<4150, 2900>>, <<4070, 2600>>,
            <<4070, 3100>>, <<3950, 2600>>, <<4150, 3100>>, <<3949, 2900>>,
            <<4151, 2900>>, <<4070, 2599>>, <<4070, 3101>>}}
  \cup {[latitude |-> 4070, longitude |-> 2900, magnitude |-> m] : m \in {19, NaN}}

FilterInit ==
  /\ pc = "filter_start"
  /\ df \in SeqUpTo(FilterEvents, MaxRows)
  /\ min_magnitude \in {0, 20, 21}
  /\ region \in Regions
  /\ filtered_df = <<>>
  /\ IdleDedup /\ IdleNorm /\ IdleFetch
  /\ host_tz = 0 /\ IdleRecord

\* data_handler.py, lines 81-82
FilterMagnitude ==
  /\ pc = "filter_start"
  /\ filtered_df' = MagnitudeMask(df, min_magnitude)
  /\ pc' = "filter_region"
  /\ UNCHANGED <<df, min_magnitude, region>>
  /\ UNCHANGED <<dedupVars, normVars, fetchVars, recordVars>>

\* data_handler.py, lines 85-93
FilterRegion ==
  /\ pc = "filter_region"
  /\ filtered_df' = MarmaraMask(filtered_df, region)
  /\ pc' = "filter_done"
  /\ UNCHANGED <<df, min_magnitude, region>>
  /\ UNCHANGED <<dedupVars, normVars, fetchVars, recordVars>>

\* ======================================================================
\* Pipeline: data_handler.fetch_earthquake_data and streamlit_app.main
\* ======================================================================
\* the value of get_kandilli_data when no page answered (Python None)
NoHtml == [none |-> TRUE]

\* what a source answers: "ok" (status 200 with a payload), "http_error"
\* (another status), "exception" (the request, or decoding the answer, raised)
NetStatus == {"ok", "http_error", "exception"}

\* kandilli.py, lines 11-20: the first of lst0.asp .. lst9.asp answering 200
\* gives the text; a page that raises RequestException or answers another
\* status is passed over; None when none answers.  value: what is returned,
\* raised: an exception left the function.
get_kandilli_data(net) ==
  [raised |-> FALSE, value |-> IF net.status = "ok" THEN net.payload ELSE NoHtml]

\* afad.py, lines 23-38
get_afad_data(net) ==
  [raised |-> FALSE, value |-> IF net.status = "ok" THEN net.payload ELSE <<>>]

\* "if kandilli_html:" -- neither None nor the empty string
TruthyHtml(html) == html # NoHtml /\ ~html.empty

Selected(name) == \E k \in 1..Len(sources) : sources[k] = name

\* df.sort_values('date', ascending=False): every order of the rows that is
\* descending by date (the default sort is not stable, so rows with equal
\* dates may come out in any order)
RECURSIVE SortByDateDescending(_)
SortByDateDescending(rows) ==
  IF rows = <<>> THEN {<<>>}
  ELSE LET e == rows[Len(rows)]
       IN UNION {
            {SubSeq(t, 1, n) \o <<e>> \o SubSeq(t, n + 1, Len(t)) :
               n \in {m \in 0..Len(t) :
                        /\ \A k \in 1..m : t[k].date >= e.date
                        /\ \A k \in (m + 1)..Len(t) : t[k].date <= e.date}}
            : t \in SortByDateDescending(SubSeq(rows, 1, Len(rows) - 1))}

\* constants.py, line 36
DEFAULT_AFAD_HOURS == 48

\* streamlit_app.py, line 95: st.cache_data(ttl=3600), seconds
ttl == 3600

\* The key of a call of cached_fetch_data: its arguments (the list of sources
\* is hashed with its order).
CacheKey(srcs, hours) == <<srcs, hours>>

\* a lookup that never lets an entry expire
CacheHits_no_expiry(c, key, now) == {e \in c : e.key = key}

\* The entries of the cache a lookup at time now can return: those of the key
\* stored less than ttl ago.
CacheHits(c, key, now) == {e \in c : e.key = key /\ now - e.stored_at < ttl}

\* Storing a return value: the entry replaces the one of its key, and entries
\* past their ttl are dropped.  by is history: the run that computed value.
CacheStore(c, key, now, value, shown, by) ==
  {e \in c : e.key # key /\ now - e.stored_at < ttl}
  \cup {[key |-> key, stored_at |-> now, value |-> value, shown |-> shown, by |-> by]}

\* the raw records the two sources answer with in the pipeline runs
KandilliFeed ==
  {BaseLine, KandilliLine(7200000, 3800, 3500, Ok(15), Dash, Ok(17)),
   [BaseLine EXCEPT !.shape = "short"]}

AfadFeed ==
  {BaseQuake, AfadQuake(2, 7200000 - Hours3, 3900, 3000, 15, "absent"),
   [BaseQuake EXCEPT !.latitude = Null]}

Init ==
  /\ pc = "fetch_kandilli"
  /\ sources \in {<<>>, <<"Kandilli">>, <<"AFAD">>, <<"Kandilli", "AFAD">>,
                  <<"AFAD", "Kandilli">>}
  /\ kandilli_net \in
       {[status |-> "ok", payload |-> h] :
          h \in {Html(l) : l \in SeqUpTo(KandilliFeed, MaxFeed)} \cup {EmptyHtml}}
       \cup {[status |-> st, payload |-> EmptyHtml] : st \in NetStatus \ {"ok"}}
  /\ afad_net \in
       {[status |-> "ok", payload |-> l] : l \in SeqUpTo(AfadFeed, MaxFeed)}
       \cup {[status |-> st, payload |-> <<>>] : st \in NetStatus \ {"ok"}}
  /\ min_magnitude \in {0, 20, 45}
  /\ region \in Regions
  /\ combined_data = <<>>
  /\ signals = {}
  /\ df = <<>>
  /\ filtered_df = <<>>
  /\ afad_hours = DEFAULT_AFAD_HOURS /\ cache = {} /\ clock = 0 /\ run = 1
  /\ computed_in = 0 /\ log = <<>>
  /\ host_tz \in HostZones
  /\ IdleDedup /\ IdleNorm /\ IdleRecord

\* FetchAFAD made to depend on the Kandilli fetch having succeeded
FetchAFAD_blocked ==
  /\ pc = "fetch_afad"
  /\ LET r == get_afad_data(afad_net)
     IN IF Selected("AFAD") /\ "kandilli_error" \notin signals
        THEN IF r.value # <<>>
             THEN /\ combined_data' = combined_data \o standardize_afad_data(r.value)
                  /\ signals' = signals \cup {"afad_success"}
                  /\ pc' = "deduplicate"
             ELSE /\ signals' = signals \cup {"afad_error"}
                  /\ pc' = "deduplicate"
                  /\ UNCHANGED combined_data
        ELSE /\ pc' = "deduplicate"
             /\ UNCHANGED <<combined_data, signals>>
  /\ UNCHANGED <<sources, kandilli_net, afad_net, filterVars>>
  /\ UNCHANGED <<dedupVars, normVars, cacheVars, recordVars>>

\* FetchAFAD putting its events in front of the merged list
FetchAFAD_prepend ==
  /\ pc = "fetch_afad"
  /\ LET r == get_afad_data(afad_net)
     IN IF Selected("AFAD")
        THEN IF r.value # <<>>
             THEN /\ combined_data' = standardize_afad_data(r.value) \o combined_data
                  /\ signals' = signals \cup {"afad_success"}
                  /\ pc' = "deduplicate"
             ELSE /\ signals' = signals \cup {"afad_error"}
                  /\ pc' = "deduplicate"
                  /\ UNCHANGED combined_data
        ELSE /\ pc' = "deduplicate"
             /\ UNCHANGED <<combined_data, signals>>
  /\ UNCHANGED <<sources, kandilli_net, afad_net, filterVars>>
  /\ UNCHANGED <<dedupVars, normVars, cacheVars, recordVars>>

\* data_handler.py, lines 22-32
FetchKandilli ==
  /\ pc = "fetch_kandilli"
  /\ LET r == get_kandilli_data(kandilli_net)
     IN IF Selected("Kandilli")
        THEN IF r.raised
             THEN /\ pc' = "raised"
                  /\ UNCHANGED <<combined_data, signals>>
             ELSE IF TruthyHtml(r.value)
             THEN /\ combined_data' = combined_data \o parse_kandilli_data(r.value)
                  /\ signals' = signals \cup {"kandilli_success"}
                  /\ pc' = "fetch_afad"
             ELSE /\ signals' = signals \cup {"kandilli_error"}
                  /\ pc' = "fetch_afad"
                  /\ UNCHANGED combined_data
        ELSE /\ pc' = "fetch_afad"
             /\ UNCHANGED <<combined_data, signals>>
  /\ UNCHANGED <<sources, kandilli_net, afad_net, filterVars>>
  /\ UNCHANGED <<dedupVars, normVars, cacheVars, recordVars>>

\* data_handler.py, lines 34-46
FetchAFAD ==
  /\ pc = "fetch_afad"
  /\ LET r == get_afad_data(afad_net)
     IN IF Selected("AFAD")
        THEN IF r.raised
             THEN /\ pc' = "raised"
                  /\ UNCHANGED <<combined_data, signals>>
             ELSE IF r.value # <<>>
             THEN /\ combined_data' = combined_data \o standardize_afad_data(r.value)
                  /\ signals' = signals \cup {"afad_success"}
                  /\ pc' = "deduplicate"
             ELSE /\ signals' = signals \cup {"afad_error"}
                  /\ pc' = "deduplicate"
                  /\ UNCHANGED combined_data
        ELSE /\ pc' = "deduplicate"
             /\ UNCHANGED <<combined_data, signals>>
  /\ UNCHANGED <<sources, kandilli_net, afad_net, filterVars>>
  /\ UNCHANGED <<dedupVars, normVars, cacheVars, recordVars>>

\* data_handler.py, lines 48-64: deduplicate, sort and return, or report no
\* data; streamlit_app.py, lines 95-99: the returned frame enters the cache
Deduplicate ==
  /\ pc = "deduplicate"
  /\ IF combined_data # <<>>
     THEN /\ df' \in SortByDateDescending(deduplicate_earthquakes(combined_data))
          /\ signals' = signals \cup {"dedup_info"}
     ELSE /\ df' = <<>>
          /\ signals' = signals \cup {"no_data_error"}
  /\ cache' = CacheStore(cache, CacheKey(sources, afad_hours), clock, df', signals', run)
  /\ computed_in' = run
  /\ log' = Append(log, [key |-> CacheKey(sources, afad_hours), at |-> clock,
                         fresh |-> TRUE, df |-> df'])
  /\ pc' = "main"
  /\ UNCHANGED <<sources, kandilli_net, afad_net, combined_data,
                 min_magnitude, region, filtered_df, afad_hours, clock, run>>
  /\ UNCHANGED <<dedupVars, normVars, recordVars>>

\* main without the "if not df.empty" test
Main_unguarded ==
  /\ pc = "main"
  /\ filtered_df' = filter_data(df, min_magnitude, region)
  /\ signals' = signals \cup
       {IF Len(filtered_df') = 0 THEN "filter_warning" ELSE "display_success"}
  /\ pc' = "done"
  /\ UNCHANGED <<sources, kandilli_net, afad_net, combined_data,
                 df, min_magnitude, region>>
  /\ UNCHANGED <<dedupVars, normVars, cacheVars, recordVars>>

\* streamlit_app.py, lines 99-112
Main ==
  /\ pc = "main"
  /\ IF df # <<>>
     THEN /\ filtered_df' = filter_data(df, min_magnitude, region)
          /\ signals' = signals \cup
               {IF Len(filtered_df') = 0 THEN "filter_warning" ELSE "display_success"}
     ELSE UNCHANGED <<filtered_df, signals>>
  /\ pc' = "done"
  /\ UNCHANGED <<sources, kandilli_net, afad_net, combined_data,
                 df, min_magnitude, region>>
  /\ UNCHANGED <<dedupVars, normVars, cacheVars, recordVars>>

\* ----------------------------------------- successive runs of the script
\* What the sidebar holds and what the two sources answer in one run.
RunSources == {<<"Kandilli">>, <<"Kandilli", "AFAD">>}
RunHours == {24, 48}
RunKandilliNet ==
  {[status |-> "ok", payload |-> Html(<<l>>)] :
     l \in {BaseLine, KandilliLine(7200000, 3800, 3500, Ok(15), Dash, Ok(17))}}
RunAfadNet ==
  {[status |-> "ok", payload |-> <<BaseQuake>>], [status |-> "exception", payload |-> <<>>]}

\* seconds that pass between two runs
RunGaps == {1800, 3600}

RunsInit ==
  /\ pc = "cached_fetch"
  /\ sources \in RunSources
  /\ afad_hours \in RunHours
  /\ kandilli_net \in RunKandilliNet
  /\ afad_net \in RunAfadNet
  /\ min_magnitude = 0
  /\ region = "Tum Turkiye"
  /\ combined_data = <<>>
  /\ signals = {}
  /\ df = <<>>
  /\ filtered_df = <<>>
  /\ cache = {} /\ clock = 0 /\ run = 1
  /\ computed_in = 0 /\ log = <<>>
  /\ host_tz = 0
  /\ IdleDedup /\ IdleNorm /\ IdleRecord

\* streamlit_app.py, lines 95-99: the call of cached_fetch_data. An entry of
\* the key that is younger than ttl is returned without running
\* fetch_earthquake_data (its st.* calls are replayed); otherwise the function
\* runs (data_handler.py, line 20).
CachedFetch ==
  /\ pc = "cached_fetch"
  /\ LET hits == CacheHits(cache, CacheKey(sources, afad_hours), clock)
     IN IF hits # {}
        THEN \E e \in hits :
               /\ df' = e.value
               /\ signals' = e.shown
               /\ computed_in' = e.by
               /\ log' = Append(log, [key |-> CacheKey(sources, afad_hours), at |-> clock,
                                      fresh |-> FALSE, df |-> e.value])
               /\ pc' = "main"
        ELSE /\ pc' = "fetch_kandilli"
             /\ UNCHANGED <<df, signals, computed_in, log>>
  /\ combined_data' = <<>>
  /\ UNCHANGED <<sources, kandilli_net, afad_net, min_magnitude, region, filtered_df,
                 afad_hours, cache, clock, run>>
  /\ UNCHANGED <<dedupVars, normVars, recordVars>>

\* streamlit_app.py, lines 43-74: a change of a widget reruns the script, some
\* time after the run before; the sources may answer differently by then.
Rerun ==
  /\ pc = "done"
  /\ run < MaxRuns
  /\ run' = run + 1
  /\ \E gap \in RunGaps : clock' = clock + gap
  /\ sources' \in RunSources
  /\ afad_hours' \in RunHours
  /\ kandilli_net' \in RunKandilliNet
  /\ afad_net' \in RunAfadNet
  /\ combined_data' = <<>>
  /\ signals' = {}
  /\ df' = <<>>
  /\ filtered_df' = <<>>
  /\ computed_in' = 0
  /\ pc' = "cached_fetch"
  /\ UNCHANGED <<min_magnitude, region, cache, log>>
  /\ UNCHANGED <<dedupVars, normVars, recordVars>>

\* --------------------------- one record of each source, normalized twice
\* The words a Kandilli line can end with: the status word in capitals or as
\* the site writes it, or the mark of a revised solution with its date.
KandilliTails ==
  {<<"ILKSEL">>, <<"Ilksel">>, <<"REVIZE01", "(2024.01.01", "12:30:00)">>}

\* Lines at T and T + 20 s with every combination of MD, ML and MW given or
\* left as -.-, and a line that does not parse.
RecordLines ==
  {[KandilliLine(t, 4070, 2900, md, ml, mw) EXCEPT !.tail = tl] :
     t \in {0, 20000}, md \in {Dash, Ok(38)}, ml \in {Dash, Ok(41)},
     mw \in {Dash, Ok(43)}, tl \in KandilliTails}
  \cup {[BaseLine EXCEPT !.when = Bad]}

\* Records of the UTC instants T - 3 h and T - 3 h + 20.12 s, the date written
\* with or without Z, with or without eventID, type, isEventUpdate and
\* magnitude, and a record that does not parse.
RecordQuakes ==
  {[AfadQuake(7, utc, 4072, 2903, 40, typ)
      EXCEPT !.eventID = id, !.zone = z, !.isEventUpdate = u, !.magnitude = m] :
     utc \in {0 - Hours3, 20120 - Hours3}, typ \in {"MW", "ML", "MD", "Mb", "absent"},
     id \in {Ok(7), Absent}, z \in {"naive", "Z"}, u \in {"absent", "false", "true"},
     m \in {Ok(40), Absent}}
  \cup {[BaseQuake EXCEPT !.latitude = Null]}

RecordInit ==
  /\ pc = "parse_line"
  /\ host_tz \in HostZones
  /\ raw_line \in RecordLines
  /\ raw_quake \in RecordQuakes
  /\ normalized = <<>>
  /\ renormalized = <<>>
  /\ pair_unique = <<>>
  /\ IdleDedup /\ IdleNorm /\ IdleFilter /\ IdleFetch

\* kandilli.py, lines 63-140 (None is kept in the list as NoEvent)
ParseLine ==
  /\ pc = "parse_line"
  /\ normalized' = <<parse_kandilli_line(raw_line)>>
  /\ pc' = "standardize_quake"
  /\ UNCHANGED <<host_tz, raw_line, raw_quake, renormalized, pair_unique>>
  /\ UNCHANGED <<dedupVars, normVars, filterVars, fetchVars>>

\* afad.py, lines 56-110
StandardizeQuake ==
  /\ pc = "standardize_quake"
  /\ normalized' = Append(normalized, standardize_afad_quake(raw_quake))
  /\ pc' = "renormalize"
  /\ UNCHANGED <<host_tz, raw_line, raw_quake, renormalized, pair_unique>>
  /\ UNCHANGED <<dedupVars, normVars, filterVars, fetchVars>>

\* both normalizers called once more on the same two records
Renormalize ==
  /\ pc = "renormalize"
  /\ renormalized' = <<parse_kandilli_line(raw_line), standardize_afad_quake(raw_quake)>>
  /\ pc' = "dedup_pair"
  /\ UNCHANGED <<host_tz, raw_line, raw_quake, normalized, pair_unique>>
  /\ UNCHANGED <<dedupVars, normVars, filterVars, fetchVars>>

\* data_handler.py, lines 29, 43, 48-49: the events of the two records, the
\* Kandilli one first, through deduplicate_earthquakes
DedupPair ==
  /\ pc = "dedup_pair"
  /\ pair_unique' = deduplicate_earthquakes(SelectSeq(normalized, LAMBDA e : e # NoEvent))
  /\ pc' = "record_done"
  /\ UNCHANGED <<host_tz, raw_line, raw_quake, normalized, renormalized>>
  /\ UNCHANGED <<dedupVars, normVars, filterVars, fetchVars>>

\* ------------------------------------------ inputs of the resolver runs
\* One report, and the reports that differ from it in one coordinate (30 s and
\* 60 s later; 0.05 and 0.10 degrees away; 0.2 and 0.5 larger; no magnitude),
\* or in all three at once (inside all three thresholds; on all three).
\* Report 0 is a Kandilli event, the others are AFAD events with their own ids.
Report(id, t, lat, lon, m) ==
  [timestamp |-> t, latitude |-> lat, longitude |-> lon, magnitude |-> m,
   eventID |-> IF id = 0 THEN KandilliId(t \div 1000) ELSE NativeId(id),
   source |-> IF id = 0 THEN "Kandilli" ELSE "AFAD"]

BaseEvent == Report(0, 0, 4070, 2900, 32)

DedupEvents ==
  {BaseEvent, Report(1, 30000, 4070, 2900, 32), Report(2, 60000, 4070, 2900, 32),
   Report(3, 0, 4073, 2904, 32), Report(4, 0, 4076, 2908, 32),
   Report(5, 0, 4070, 2900, 34), Report(6, 0, 4070, 2900, 37),
   Report(7, 0, 4070, 2900, NaN),
   Report(8, 30000, 4073, 2904, 34), Report(9, 60000, 4076, 2908, 37)}

\* ------------------------------------ deduplicate_earthquakes, stepwise
DedupInit ==
  /\ pc = "dedup_start"
  /\ earthquakes \in SeqUpTo(DedupEvents, MaxLen)
  /\ unique_earthquakes = <<>>
  /\ used_indices = {}
  /\ i = 1
  /\ kept = <<>>
  /\ absorbed_by = [j \in 1..Len(earthquakes) |-> 0]
  /\ IdleNorm /\ IdleFilter /\ IdleFetch
  /\ host_tz = 0 /\ IdleRecord

\* lines 14-23: the early return on an empty list, else the loop starts
DedupStart ==
  /\ pc = "dedup_start"
  /\ pc' = IF earthquakes = <<>> THEN "dedup_done" ELSE "dedup_loop"
  /\ unique_earthquakes' = <<>>
  /\ used_indices' = {}
  /\ i' = 1
  /\ UNCHANGED <<earthquakes, kept, absorbed_by>>
  /\ UNCHANGED <<normVars, filterVars, fetchVars, recordVars>>

\* lines 25-27: a consumed position is passed over
DedupSkip ==
  /\ pc = "dedup_loop"
  /\ i <= Len(earthquakes)
  /\ i \in used_indices
  /\ i' = i + 1
  /\ UNCHANGED <<pc, earthquakes, unique_earthquakes, used_indices, kept, absorbed_by>>
  /\ UNCHANGED <<normVars, filterVars, fetchVars, recordVars>>

\* the kept row put in front of the list, newest first
DedupKeep_prepend ==
  /\ pc = "dedup_loop"
  /\ i <= Len(earthquakes)
  /\ i \notin used_indices
  /\ unique_earthquakes' = <<earthquakes[i]>> \o unique_earthquakes
  /\ used_indices' = ScanDuplicates(earthquakes, i, 1, used_indices)
  /\ kept' = Append(kept, i)
  /\ absorbed_by' = [j \in 1..Len(earthquakes) |->
                       IF j \in used_indices' \ used_indices THEN i ELSE absorbed_by[j]]
  /\ i' = i + 1
  /\ UNCHANGED <<pc, earthquakes>>
  /\ UNCHANGED <<normVars, filterVars, fetchVars, recordVars>>

\* lines 29-50: the row is kept and its duplicates are consumed
DedupKeep ==
  /\ pc = "dedup_loop"
  /\ i <= Len(earthquakes)
  /\ i \notin used_indices
  /\ unique_earthquakes' = Append(unique_earthquakes, earthquakes[i])
  /\ used_indices' = ScanDuplicates(earthquakes, i, 1, used_indices)
  /\ kept' = Append(kept, i)
  /\ absorbed_by' = [j \in 1..Len(earthquakes) |->
                       IF j \in used_indices' \ used_indices THEN i ELSE absorbed_by[j]]
  /\ i' = i + 1
  /\ UNCHANGED <<pc, earthquakes>>
  /\ UNCHANGED <<normVars, filterVars, fetchVars, recordVars>>

\* line 52
DedupReturn ==
  /\ pc = "dedup_loop"
  /\ i > Len(earthquakes)
  /\ pc' = "dedup_done"
  /\ UNCHANGED dedupVars
  /\ UNCHANGED <<normVars, filterVars, fetchVars, recordVars>>

DedupNext == DedupStart \/ DedupSkip \/ DedupKeep \/ DedupReturn

\* a run of deduplicate_earthquakes alone
SpecDedup == DedupInit /\ [][DedupNext]_vars

NormNext == NormStart \/ NormRecord \/ NormSort

\* a run of one normalizer alone
SpecNorm == NormInit /\ [][NormNext]_vars

FilterNext == FilterMagnitude \/ FilterRegion

\* a run of filter_data alone
SpecFilter == FilterInit /\ [][FilterNext]_vars

Next == FetchKandilli \/ FetchAFAD \/ Deduplicate \/ Main

RecordNext == ParseLine \/ StandardizeQuake \/ Renormalize \/ DedupPair

\* one record of each source through its normalizer and the resolver
SpecRecord == RecordInit /\ [][RecordNext]_vars

RunsNext == CachedFetch \/ FetchKandilli \/ FetchAFAD \/ Deduplicate \/ Main \/ Rerun

\* successive runs of the script in one server process, sharing the cache
SpecRuns == RunsInit /\ [][RunsNext]_vars

\* a run of the pipeline: main calling fetch_earthquake_data and filter_data
Spec == Init /\ [][Next]_vars

\* ======================================================================
\* Properties of deduplicate_earthquakes (checked under SpecDedup)
\* ======================================================================

\* The matching predicate as the specification words it, on the scaled units.
SameEvent(A, B) ==
  /\ (IF A.timestamp >= B.timestamp THEN A.timestamp - B.timestamp
                                    ELSE B.timestamp - A.timestamp) < 60000
  /\ (A.latitude - B.latitude) * (A.latitude - B.latitude)
       + (A.longitude - B.longitude) * (A.longitude - B.longitude) < 100
  /\ A.magnitude # NaN /\ B.magnitude # NaN
  /\ A.magnitude - B.magnitude < 5 /\ B.magnitude - A.magnitude < 5

DedupDone == pc = "dedup_done"

InOutput(k) == \E n \in 1..Len(kept) : kept[n] = k

\* The history variable kept names exactly the rows of the returned list.
OutputIsKeptRows ==
  /\ Len(unique_earthquakes) = Len(kept)
  /\ \A n \in 1..Len(kept) : unique_earthquakes[n] = earthquakes[kept[n]]

\* C1: for an input of exactly two events A, B the function returns one
\* representative iff the time difference is < 60 s, the degree distance is
\* < 0.1 and the magnitude difference is < 0.5, all strict; otherwise (a
\* difference exactly on a threshold included) it returns both events.
C1_TwoEventPredicate ==
  (DedupDone /\ Len(earthquakes) = 2) =>
    IF SameEvent(earthquakes[1], earthquakes[2])
    THEN Len(unique_earthquakes) = 1
    ELSE unique_earthquakes = earthquakes

\* two reports 30 s, 0.05 degrees and 0.2 apart were merged into one
C1_Witness ==
  /\ DedupDone
  /\ Len(earthquakes) = 2
  /\ earthquakes[1] = BaseEvent
  /\ earthquakes[2] = Report(8, 30000, 4073, 2904, 34)
  /\ Len(unique_earthquakes) = 1

\* A, B, C at positions a < b < c: A matches B, B matches C, A does not match
\* C, and no other event of the input matches any of the three.
Chain(a, b, c) ==
  /\ a < b /\ b < c
  /\ SameEvent(earthquakes[a], earthquakes[b])
  /\ SameEvent(earthquakes[b], earthquakes[c])
  /\ ~SameEvent(earthquakes[a], earthquakes[c])
  /\ \A k \in (1..Len(earthquakes)) \ {a, b, c} :
       \A m \in {a, b, c} : ~SameEvent(earthquakes[k], earthquakes[m])

\* C2 as claimed: the three form one class, A is the only representative and
\* B and C are both absorbed into A's class.
C2_ChainIsOneClass ==
  DedupDone =>
    \A a, b, c \in 1..Len(earthquakes) :
      Chain(a, b, c) =>
        /\ InOutput(a) /\ ~InOutput(b) /\ ~InOutput(c)
        /\ absorbed_by[b] = a /\ absorbed_by[c] = a

\* C2 as amended: the three form two classes. A is a representative and
\* absorbs B; C, which matches only the absorbed B, is never consumed and is
\* returned as a representative of its own.
C2_ChainIsTwoClasses ==
  DedupDone =>
    /\ OutputIsKeptRows
    /\ \A a, b, c \in 1..Len(earthquakes) :
         Chain(a, b, c) =>
           /\ InOutput(a) /\ ~InOutput(b) /\ InOutput(c)
           /\ absorbed_by[b] = a
           /\ c \notin used_indices /\ absorbed_by[c] = 0

\* a chain in time (0 s, 30 s, 60 s) was processed to the end
C2_Witness ==
  /\ DedupDone
  /\ Len(earthquakes) = 3
  /\ Chain(1, 2, 3)
  /\ Len(unique_earthquakes) = 2

\* C3: first seen wins. If A precedes B, they match and A was not consumed
\* by an earlier representative, then A is in the output and B is not; every
\* consumed row was consumed by an earlier row that is in the output, so the
\* representative of a class is its member of smallest position.
C3_FirstSeenWins ==
  DedupDone =>
    /\ OutputIsKeptRows
    /\ \A a, b \in 1..Len(earthquakes) :
         (a < b /\ SameEvent(earthquakes[a], earthquakes[b]) /\ a \notin used_indices)
           => (InOutput(a) /\ ~InOutput(b))
    /\ \A j \in 1..Len(earthquakes) :
         /\ (j \in used_indices) = (absorbed_by[j] # 0)
         /\ (j \in used_indices) = ~InOutput(j)
         /\ absorbed_by[j] # 0 => (absorbed_by[j] < j /\ InOutput(absorbed_by[j]))

\* B at position 3 matched the earlier, unconsumed A at position 2
C3_Witness ==
  /\ DedupDone
  /\ Len(earthquakes) = 3
  /\ SameEvent(earthquakes[2], earthquakes[3])
  /\ ~SameEvent(earthquakes[1], earthquakes[2])
  /\ ~SameEvent(earthquakes[1], earthquakes[3])
  /\ earthquakes[2] # earthquakes[3]
  /\ unique_earthquakes = <<earthquakes[1], earthquakes[2]>>

\* C4: an event without a magnitude is never merged. In every state of a run
\* it is not consumed and has consumed nothing, and at the end it is in the
\* output, however close in time and place the other events are.
C4_MissingMagnitudeNeverMerged ==
  \A j \in 1..Len(earthquakes) :
    earthquakes[j].magnitude = NaN =>
      /\ j \notin used_indices
      /\ absorbed_by[j] = 0
      /\ \A k \in 1..Len(earthquakes) : absorbed_by[k] # j
      /\ DedupDone => (InOutput(j) /\ OutputIsKeptRows)

\* a report without magnitude at the time and place of another report: both kept
C4_Witness ==
  /\ DedupDone
  /\ Len(earthquakes) = 2
  /\ earthquakes[2] = Report(7, 0, 4070, 2900, NaN)
  /\ earthquakes[1] = BaseEvent
  /\ unique_earthquakes = earthquakes

\* ======================================================================
\* Properties of the normalizers (checked under SpecNorm)
\* ======================================================================

\* The raw record carries a parseable timestamp, latitude, longitude, depth
\* and magnitude value.
RequiredFieldsPresent(raw) ==
  IF norm_source = "Kandilli"
  THEN /\ raw.shape = "data"
       /\ raw.when.k = "ok" /\ raw.lat.k = "ok" /\ raw.lon.k = "ok" /\ raw.depth.k = "ok"
       /\ \A f \in {raw.md, raw.ml, raw.mw} : f.k # "bad"
       /\ \E f \in {raw.md, raw.ml, raw.mw} : f.k = "ok"
  ELSE /\ raw.date.k = "ok" /\ raw.latitude.k = "ok" /\ raw.longitude.k = "ok"
       /\ raw.depth.k = "ok" /\ raw.magnitude.k = "ok"

\* C5 as claimed: normalization fails closed. A raw record whose timestamp,
\* latitude, longitude, depth or magnitude is absent or unparseable produces
\* no event, so every emitted event stems from a record that carried all five.
C5_NormalizationFailsClosed ==
  \A k \in emitted : RequiredFieldsPresent(RawRecords[k])

\* The batch had a table to read (for Kandilli: text, <pre> and header line).
BatchRead == pc = "norm_done" /\ (norm_source = "Kandilli" => ~NoKandilliTable(html_content))

\* C6 as claimed: per-record isolation. A batch of M malformed and N valid
\* records, in any interleaving, normalizes to exactly the N events of the
\* valid records.
C6_ExactlyTheValidRecords ==
  BatchRead =>
    /\ Len(norm_out) = Cardinality({k \in 1..Len(RawRecords) :
                                      RequiredFieldsPresent(RawRecords[k])})
    /\ emitted = {k \in 1..Len(RawRecords) : RequiredFieldsPresent(RawRecords[k])}

\* ======================================================================
\* Properties of filter_data (checked under SpecFilter)
\* ======================================================================

\* positions of df whose row satisfies both predicates of the filter layer
Passing ==
  {k \in 1..Len(df) :
     /\ df[k].magnitude # NaN /\ df[k].magnitude >= min_magnitude
     /\ region = "Marmara Bolgesi" =>
          /\ 3950 <= df[k].latitude /\ df[k].latitude <= 4150
          /\ 2600 <= df[k].longitude /\ df[k].longitude <= 3100}

\* the n-th smallest position of Passing
NthPassing(n) == CHOOSE k \in Passing : Cardinality({m \in Passing : m < k}) = n - 1

\* C7: filter_data returns exactly the rows of its input with
\* magnitude >= min_magnitude (inclusive) that, for the Marmara region, lie in
\* the closed box 39.5..41.5 x 26.0..31.0, in input order; with the other
\* region no row is dropped for its coordinates.
C7_FilterExact ==
  pc = "filter_done" =>
    /\ Len(filtered_df) = Cardinality(Passing)
    /\ \A n \in 1..Len(filtered_df) : filtered_df[n] = df[NthPassing(n)]

\* a row on the corner of the box with magnitude equal to min_magnitude was
\* kept, and the row before it, of magnitude 1.9, was dropped
C7_Witness ==
  /\ pc = "filter_done"
  /\ region = "Marmara Bolgesi"
  /\ min_magnitude = 20
  /\ df = <<[latitude |-> 4070, longitude |-> 2900, magnitude |-> 19],
            [latitude |-> 3950, longitude |-> 2600, magnitude |-> 20]>>
  /\ filtered_df = <<[latitude |-> 3950, longitude |-> 2600, magnitude |-> 20]>>

\* ======================================================================
\* Properties of the pipeline (checked under Spec)
\* ======================================================================

\* the events of one source in this run: its normalizer's output when the
\* source is selected and its fetch succeeded, nothing otherwise
KandilliEvents ==
  IF Selected("Kandilli") /\ kandilli_net.status = "ok"
  THEN parse_kandilli_data(kandilli_net.payload) ELSE <<>>

AfadEvents ==
  IF Selected("AFAD") /\ afad_net.status = "ok"
  THEN standardize_afad_data(afad_net.payload) ELSE <<>>

Count(s, e) == Cardinality({k \in 1..Len(s) : s[k] = e})

SameRows(s, t) ==
  /\ Len(s) = Len(t)
  /\ \A k \in 1..Len(s) : Count(s, s[k]) = Count(t, s[k])

Returned == pc \in {"main", "done"}

\* C8: partial-source degradation. Whatever the two fetches do, no failure
\* raises out of the pipeline, a failed source contributes nothing and the
\* other one is still fetched and normalized: the returned collection holds
\* the rows of the deduplication of the events of the sources that succeeded.
C8_PartialSourceDegradation ==
  /\ pc # "raised"
  /\ Returned => SameRows(df, deduplicate_earthquakes(KandilliEvents \o AfadEvents))

\* Kandilli failed, AFAD answered two distinct events, both were returned
C8_Witness ==
  /\ pc = "done"
  /\ Selected("Kandilli") /\ Selected("AFAD")
  /\ kandilli_net.status # "ok"
  /\ "kandilli_error" \in signals
  /\ afad_net.status = "ok"
  /\ Len(df) = 2

\* no row of the returned frame passes the filters
FiltersExcludeAll ==
  \A k \in 1..Len(df) :
    ~(/\ df[k].magnitude # NaN /\ df[k].magnitude >= min_magnitude
      /\ region = "Marmara Bolgesi" =>
           /\ 3950 <= df[k].latitude /\ df[k].latitude <= 4150
           /\ 2600 <= df[k].longitude /\ df[k].longitude <= 3100)

\* C9: "no data" and "filters matched nothing" are told apart. When the
\* active sources (possibly none) yield no event, the run returns an empty
\* collection with the no-data error and without the filter warning; when the
\* deduplicated collection is not empty and the filters exclude every row, it
\* gives the filter warning and not the no-data error; no run gives both.
C9_NoDataVersusEmptyAfterFilter ==
  pc = "done" =>
    /\ (KandilliEvents \o AfadEvents = <<>>) =>
         /\ df = <<>>
         /\ "no_data_error" \in signals
         /\ "filter_warning" \notin signals
    /\ (df # <<>> /\ FiltersExcludeAll) =>
         /\ "filter_warning" \in signals
         /\ "no_data_error" \notin signals
    /\ ~("no_data_error" \in signals /\ "filter_warning" \in signals)

\* both sources were selected and both fetches failed: the no-data error alone
C9_Witness ==
  /\ pc = "done"
  /\ Selected("Kandilli") /\ Selected("AFAD")
  /\ kandilli_net.status # "ok" /\ afad_net.status # "ok"
  /\ df = <<>>
  /\ "no_data_error" \in signals
  /\ "filter_warning" \notin signals

\* C10: merge order. What deduplicate_earthquakes receives is the events of
\* Kandilli followed by the events of AFAD, each in the order its normalizer
\* returned them, nothing added, dropped or reordered; when each source
\* reports one event and the two match, the pipeline returns exactly one
\* event, the Kandilli one, whose source comes first in the merge.
C10_MergeOrder ==
  /\ pc = "deduplicate" => combined_data = KandilliEvents \o AfadEvents
  /\ Returned =>
       /\ combined_data = KandilliEvents \o AfadEvents
       /\ (/\ Len(KandilliEvents) = 1 /\ Len(AfadEvents) = 1
           /\ SameEvent(KandilliEvents[1], AfadEvents[1]))
            => (df = KandilliEvents /\ df[1].source = "Kandilli")

\* lat 40.70 / lon 29.00 / M 4.1 at T from Kandilli and lat 40.72 / lon 29.03
\* / M 4.0 at T + 20 s from AFAD, AFAD selected first: the Kandilli report
\* alone is returned
C10_Witness ==
  /\ pc = "done"
  /\ sources = <<"AFAD", "Kandilli">>
  /\ kandilli_net = [status |-> "ok", payload |-> Html(<<BaseLine>>)]
  /\ afad_net = [status |-> "ok", payload |-> <<BaseQuake>>]
  /\ Len(df) = 1
  /\ df[1].source = "Kandilli" /\ df[1].magnitude = 41 /\ df[1].timestamp = 0

\* ======================================================================
\* Properties of successive runs (checked under SpecRuns)
\* ======================================================================

\* what fetch_earthquake_data computes from the payloads the sources answer
\* with during the running run, up to the order of rows of equal date
FreshResult == deduplicate_earthquakes(KandilliEvents \o AfadEvents)

\* an earlier run r computed its frame itself, for the key of the running
\* run, less than 3600 s before the running run
RecentSameKeyRun(r) ==
  /\ r < run /\ r <= Len(log)
  /\ log[r].fresh
  /\ log[r].key = <<sources, afad_hours>>
  /\ clock - log[r].at < 3600

\* C11 as claimed: every run recomputes from scratch. The frame a run returns
\* was computed by that run from the payloads fetched during it; no frame
\* computed by an earlier run is returned by a later one.
C11_EveryRunRecomputes ==
  Returned => (computed_in = run /\ SameRows(df, FreshResult))

\* C11 as amended: a run returns either a frame it computed itself from the
\* payloads fetched during it, or the frame an earlier run computed for the
\* same sources and lookback window less than 3600 s before; a run without
\* such an earlier run recomputes from scratch.
C11_RecomputedOrCachedWithinTtl ==
  Returned =>
    /\ \/ computed_in = run /\ SameRows(df, FreshResult)
       \/ RecentSameKeyRun(computed_in) /\ df = log[computed_in].df
    /\ (\A r \in 1..(run - 1) : ~RecentSameKeyRun(r)) => computed_in = run

\* the second run, 1800 s after the first and with the same sidebar, returned
\* the frame of the first although the sources answer differently by now
C11_Witness ==
  /\ pc = "done"
  /\ run = 2
  /\ clock = 1800
  /\ computed_in = 1
  /\ df = log[1].df
  /\ ~SameRows(df, FreshResult)

\* ======================================================================
\* Properties of the two normalizers on one record each (under SpecRecord)
\* ======================================================================

RecordDone == pc = "record_done"

\* normalized[1] is the event of the Kandilli line, normalized[2] the event of
\* the AFAD record
LineEvent == normalized[1]
QuakeEvent == normalized[2]

\* the raw record says it revises an earlier report: AFAD sets isEventUpdate,
\* Kandilli writes REVIZE after the place name
RevisionSignal(n) ==
  IF n = 1 THEN \E k \in 1..Len(raw_line.tail) : raw_line.tail[k] = "REVIZE01"
  ELSE raw_quake.isEventUpdate = "true"

\* the two values of the quality enumeration, as AFAD events carry them
PRELIMINARY == ILKSEL_dotted
REVISED == REVIZE_dotted

\* C12 as claimed: quality is two-valued. Every event of either normalizer
\* has quality PRELIMINARY or REVISED, the same two values for both sources:
\* PRELIMINARY when the raw record carries no revision signal, REVISED when it
\* carries one, whatever the last word of a Kandilli line is.
C12_QualityTwoValued ==
  RecordDone =>
    \A n \in 1..2 :
      normalized[n] # NoEvent =>
        normalized[n].quality = IF RevisionSignal(n) THEN REVISED ELSE PRELIMINARY

\* the word that qualifies the identifiers of a source
SourceQualifier(n) == IF n = 1 THEN "kandilli" ELSE "afad"

\* the raw record has an event id of its own (a Kandilli line never has)
HasNativeId(n) == n = 2 /\ raw_quake.eventID.k = "ok"

\* C13 as claimed: identifier assignment. Every event of either normalizer
\* has an event_id that is not null: the record's own event id when the
\* record has one, otherwise an id composed, under the name of the source, of
\* the normalized date and time; a second normalization of the same raw
\* record gives the same event_id and the same fields.
C13_IdentifierAssignment ==
  RecordDone =>
    /\ \A n \in 1..2 :
         normalized[n] # NoEvent =>
           /\ normalized[n].eventID # NoneId
           /\ IF HasNativeId(n)
              THEN normalized[n].eventID.key = raw_quake.eventID.v
              ELSE /\ normalized[n].eventID.qualifier = SourceQualifier(n)
                   /\ normalized[n].eventID.key = normalized[n].date
    /\ renormalized = normalized

\* the local time of the AFAD record: its UTC instant plus 3 hours, in ms
QuakeLocalTime == raw_quake.date.v + 10800000

\* the two events lie within 0.1 degrees and 0.5 of magnitude of each other
SamePlaceAndSize ==
  /\ (LineEvent.latitude - QuakeEvent.latitude) * (LineEvent.latitude - QuakeEvent.latitude)
       + (LineEvent.longitude - QuakeEvent.longitude)
           * (LineEvent.longitude - QuakeEvent.longitude) < 100
  /\ LineEvent.magnitude - QuakeEvent.magnitude < 5
  /\ QuakeEvent.magnitude - LineEvent.magnitude < 5

\* C14 as claimed: timestamp normalization. The timestamp (and, to the
\* second, the date) of an AFAD event is the reported UTC instant plus
\* 10 800 000 ms, that of a Kandilli event is the reported local time
\* unchanged; so the two timestamps differ by what the two local times differ,
\* are equal for an AFAD report at UTC t and a Kandilli report at local t + 3 h,
\* and two reports of one place and size less than 60 s of local time apart
\* are merged by the resolver.
C14_OneTimeBase ==
  RecordDone =>
    /\ QuakeEvent # NoEvent =>
         /\ QuakeEvent.timestamp = QuakeLocalTime
         /\ QuakeEvent.date = QuakeLocalTime \div 1000
    /\ LineEvent # NoEvent =>
         /\ LineEvent.timestamp = raw_line.when.v
         /\ LineEvent.date = raw_line.when.v \div 1000
    /\ (QuakeEvent # NoEvent /\ LineEvent # NoEvent) =>
         /\ QuakeEvent.timestamp - LineEvent.timestamp = QuakeLocalTime - raw_line.when.v
         /\ (/\ SamePlaceAndSize
             /\ QuakeLocalTime - raw_line.when.v < 60000
             /\ raw_line.when.v - QuakeLocalTime < 60000) => pair_unique = <<LineEvent>>

\* the magnitude columns of the Kandilli line that hold a value
GivenMagnitudes == {c \in {"md", "ml", "mw"} : raw_line[c].k = "ok"}

\* the column the preference order ML, MW, MD picks among the given ones
Preferred ==
  IF "ml" \in GivenMagnitudes THEN "ml"
  ELSE IF "mw" \in GivenMagnitudes THEN "mw" ELSE "md"

TypeCode(c) == IF c = "ml" THEN "ML" ELSE IF c = "mw" THEN "MW" ELSE "MD"

\* C15: magnitude selection. For a Kandilli line with any of MD, ML, MW given,
\* the magnitude is the ML value if given, else the MW value, else the MD
\* value, the type is the code of that value, the details hold the given
\* values, and so the magnitude equals the detail named by the type; for an
\* AFAD record with a magnitude, that magnitude is used with the reported
\* type, ML when the record has no type.
C15_MagnitudeSelection ==
  RecordDone =>
    /\ (LineEvent # NoEvent /\ GivenMagnitudes # {}) =>
         /\ LineEvent.magnitude = raw_line[Preferred].v
         /\ LineEvent.type = TypeCode(Preferred)
         /\ \A c \in {"md", "ml", "mw"} :
              LineEvent.magnitude_details[c] =
                IF c \in GivenMagnitudes THEN raw_line[c].v ELSE NaN
         /\ \A c \in {"md", "ml", "mw"} :
              LineEvent.type = TypeCode(c) =>
                LineEvent.magnitude_details[c] = LineEvent.magnitude
    /\ (QuakeEvent # NoEvent /\ raw_quake.magnitude.k = "ok") =>
         /\ QuakeEvent.magnitude = raw_quake.magnitude.v
         /\ QuakeEvent.type = IF raw_quake.type = "absent" THEN "ML" ELSE raw_quake.type

\* a line giving MD 3.8, ML 4.1 and MW 4.3 became an event of magnitude 4.1 ML,
\* and an AFAD record of magnitude 4.0 without type an event of 4.0 ML
C15_Witness ==
  /\ RecordDone
  /\ GivenMagnitudes = {"md", "ml", "mw"}
  /\ LineEvent # NoEvent
  /\ LineEvent.magnitude = 41 /\ LineEvent.type = "ML"
  /\ raw_quake.type = "absent" /\ raw_quake.magnitude.k = "ok"
  /\ QuakeEvent # NoEvent
  /\ QuakeEvent.magnitude = 40 /\ QuakeEvent.type = "ML"

\* ======================================================================
\* Further properties of deduplicate_earthquakes (checked under SpecDedup)
\* ======================================================================

\* the events of s at the positions of the set S, in the order of s
RECURSIVE Pick(_, _, _)
Pick(s, S, k) ==
  IF k > Len(s) THEN <<>>
  ELSE IF k \in S THEN <<s[k]>> \o Pick(s, S, k + 1) ELSE Pick(s, S, k + 1)

\* C16: the resolver neither re-sorts nor alters. The output is a subsequence
\* of the input: the representatives stand in the order of their input
\* positions, and each has the event_id, timestamp, latitude, longitude,
\* magnitude and source of the input event at its position, nothing of an
\* event it absorbed.
C16_SubsequenceUnaltered ==
  DedupDone =>
    /\ \E S \in SUBSET (1..Len(earthquakes)) : unique_earthquakes = Pick(earthquakes, S, 1)
    /\ Len(unique_earthquakes) = Len(kept)
    /\ \A n, m \in 1..Len(kept) : n < m => kept[n] < kept[m]
    /\ \A n \in 1..Len(kept) :
         LET out == unique_earthquakes[n]
             in == earthquakes[kept[n]]
         IN /\ out.eventID = in.eventID /\ out.source = in.source
            /\ out.timestamp = in.timestamp /\ out.magnitude = in.magnitude
            /\ out.latitude = in.latitude /\ out.longitude = in.longitude

\* the Kandilli report at T absorbed the AFAD report at T + 30 s that stood
\* last; the output is the reports at T and T + 60 s in input order, oldest
\* first, the first with its own id and source
C16_Witness ==
  /\ DedupDone
  /\ earthquakes = <<BaseEvent, Report(2, 60000, 4070, 2900, 32),
                     Report(1, 30000, 4070, 2900, 32)>>
  /\ absorbed_by[3] = 1
  /\ unique_earthquakes = <<BaseEvent, Report(2, 60000, 4070, 2900, 32)>>
  /\ unique_earthquakes[1].source = "Kandilli"

\* C17: no two representatives match. For every input and every two
\* different positions of the output, the two events differ by 60 s or more,
\* or lie 0.1 degrees or more apart, or differ by 0.5 or more in magnitude (or
\* one has no magnitude).
C17_RepresentativesDoNotMatch ==
  DedupDone =>
    \A n, m \in 1..Len(unique_earthquakes) :
      n # m => ~SameEvent(unique_earthquakes[n], unique_earthquakes[m])

\* three reports of one event and a fourth exactly 0.5 larger: the first
\* absorbed the two that match it, the fourth stayed beside it
C17_Witness ==
  /\ DedupDone
  /\ Len(earthquakes) = 4
  /\ SameEvent(earthquakes[1], earthquakes[2])
  /\ SameEvent(earthquakes[1], earthquakes[3])
  /\ earthquakes[2] # earthquakes[3]
  /\ ~SameEvent(earthquakes[1], earthquakes[4])
  /\ unique_earthquakes = <<earthquakes[1], earthquakes[4]>>

\* C18: absorbed events are covered. Every input event that is not in the
\* output matches a representative of the output that stands before it in the
\* input, so no event is dropped without one; and a non-empty input gives a
\* non-empty output that begins with the first input event.
C18_AbsorbedAreCovered ==
  DedupDone =>
    /\ Len(unique_earthquakes) = Cardinality({j \in 1..Len(earthquakes) : InOutput(j)})
    /\ \A j \in 1..Len(earthquakes) :
         ~InOutput(j) =>
           \E n \in 1..Len(kept) :
             /\ kept[n] < j
             /\ unique_earthquakes[n] = earthquakes[kept[n]]
             /\ SameEvent(unique_earthquakes[n], earthquakes[j])
    /\ earthquakes # <<>> =>
         (unique_earthquakes # <<>> /\ unique_earthquakes[1] = earthquakes[1])

\* the third report was dropped: it matches the first, which is in the output
C18_Witness ==
  /\ DedupDone
  /\ earthquakes = <<BaseEvent, Report(6, 0, 4070, 2900, 37),
                     Report(8, 30000, 4073, 2904, 34)>>
  /\ ~InOutput(3)
  /\ unique_earthquakes = <<BaseEvent, Report(6, 0, 4070, 2900, 37)>>

\* The reference pass of the specification: the events after position e that
\* are not yet consumed and match the event at e are marked consumed ...
RECURSIVE MarkLater(_, _, _, _)
MarkLater(s, e, j, consumed) ==
  IF j > Len(s) THEN consumed
  ELSE MarkLater(s, e, j + 1,
                 IF j \notin consumed /\ SameEvent(s[e], s[j])
                 THEN consumed \cup {j} ELSE consumed)

\* ... and every event not consumed when its turn comes is emitted.
RECURSIVE ReferencePass(_, _, _)
ReferencePass(s, e, consumed) ==
  IF e > Len(s) THEN <<>>
  ELSE IF e \in consumed THEN ReferencePass(s, e + 1, consumed)
  ELSE <<s[e]>> \o ReferencePass(s, e + 1, MarkLater(s, e, e + 1, consumed))

\* C19: scanning all other positions equals marking later ones only. In
\* every state of a run no position already emitted as a representative is in
\* used_indices, and the returned list is the list of the reference pass
\* "emit E, then absorb every later unconsumed match of E".
C19_ScanAllEqualsMarkLater ==
  /\ \A n \in 1..Len(kept) : kept[n] \notin used_indices
  /\ DedupDone => unique_earthquakes = ReferencePass(earthquakes, 1, {})

\* the scan of the second representative passed over the first, which it does
\* not match, and absorbed the third report
C19_Witness ==
  /\ DedupDone
  /\ earthquakes = <<Report(6, 0, 4070, 2900, 37), BaseEvent,
                     Report(1, 30000, 4070, 2900, 32)>>
  /\ kept = <<1, 2>>
  /\ absorbed_by[3] = 2
  /\ used_indices = {3}

\* C20: deduplication is idempotent. For every input S the function applied
\* to its own result deduplicate_earthquakes(S) returns that result again.
C20_Idempotent ==
  DedupDone => deduplicate_earthquakes(unique_earthquakes) = unique_earthquakes

\* four reports came down to two, and the two came back from a second pass
C20_Witness ==
  /\ DedupDone
  /\ earthquakes = <<BaseEvent, Report(1, 30000, 4070, 2900, 32),
                     Report(2, 60000, 4070, 2900, 32), Report(5, 0, 4070, 2900, 34)>>
  /\ unique_earthquakes = <<BaseEvent, Report(2, 60000, 4070, 2900, 32)>>
  /\ deduplicate_earthquakes(unique_earthquakes) = unique_earthquakes

====
